---- MODULE Spec2Model ----
(***************************************************************************)
(* Model of pyLSV2/low_level_com.py: class LLLSV2Com, the low level        *)
(* communication layer that sends LSV2 telegrams over a TCP socket and     *)
(* reassembles the response.                                               *)
(*                                                                         *)
(* Bytes are integers 0..255, byte strings and text are sequences of       *)
(* integers (text: code points).  The socket is the environment: every     *)
(* socket call either raises or returns, and recv(n) returns any number of *)
(* bytes from 0 to n.                                                      *)
(***************************************************************************)
EXTENDS Integers, Sequences, FiniteSets, TLC

\* ------------------------------------------------------------------------
\* Bounds of the model
\* ------------------------------------------------------------------------

\* longest command payload handed to telegram()
MaxPayload == 1

\* largest payload length a response header declares
MaxLen == 2

\* largest number of content bytes that arrive together with the header in the
\* initial read
MaxInit == 1

\* ------------------------------------------------------------------------
\* Program constants
\* ------------------------------------------------------------------------

DEFAULT_BUFFER_SIZE == 256

\* ------------------------------------------------------------------------
\* Code catalog (pyLSV2/const.py) and error record (pyLSV2/dat_cls.py)
\* ------------------------------------------------------------------------

\* RSP.NONE = "NONE"
RSP_NONE == <<78, 79, 78, 69>>
\* RSP.T_OK = "T_OK"
RSP_T_OK == <<84, 95, 79, 75>>
\* RSP.T_ER = "T_ER"
RSP_T_ER == <<84, 95, 69, 82>>
\* RSP.T_FD = "T_FD"
RSP_T_FD == <<84, 95, 70, 68>>

\* the values of the response enumeration
RSP == {RSP_NONE, RSP_T_OK, RSP_T_ER, RSP_T_FD}

\* CMD.A_LG = "A_LG"
CMD_A_LG == <<65, 95, 76, 71>>
\* CMD.R_VR = "R_VR"
CMD_R_VR == <<82, 95, 86, 82>>

\* the values of the command enumeration used as telegram() arguments
CMD == {CMD_A_LG, CMD_R_VR}

\* TransmissionError(): the empty error record
EmptyError == [empty |-> TRUE, raw |-> <<>>]

\* TransmissionError.from_ba(content): the decoder's record of content
from_ba(content) == [empty |-> FALSE, raw |-> content]

\* ------------------------------------------------------------------------
\* Pure helpers
\* ------------------------------------------------------------------------

\* the Python value None, where a payload is expected
None == <<-1>>

\* struct.pack("!L", n): unsigned 32 bit, big endian
pack_L(n) ==
    << (n \div 16777216) % 256, (n \div 65536) % 256, (n \div 256) % 256, n % 256 >>

\* struct.unpack("!L", b)[0]
unpack_L(b) ==
    b[1] * 16777216 + b[2] * 65536 + b[3] * 256 + b[4]

\* data[lo:hi] of Python, lo and hi zero based, clipped to the data
Slice(data, lo, hi) ==
    SubSeq(data, lo + 1, IF hi < Len(data) THEN hi ELSE Len(data))

\* bytes.decode("utf-8", "ignore"): one byte code points are kept, a two byte
\* sequence (lead 0xC2..0xDF, continuation 0x80..0xBF) gives its code point,
\* any other byte is dropped.  Lead bytes of three and four byte sequences
\* (0xE0..0xF4) are not among the bytes the model's socket delivers.
RECURSIVE decode_utf8_ignore(_)
decode_utf8_ignore(b) ==
    IF b = <<>> THEN <<>>
    ELSE IF b[1] < 128 THEN <<b[1]>> \o decode_utf8_ignore(Tail(b))
    ELSE IF /\ b[1] >= 194 /\ b[1] <= 223 /\ Len(b) >= 2
            /\ b[2] >= 128 /\ b[2] <= 191
         THEN <<(b[1] - 192) * 64 + (b[2] - 128)>> \o decode_utf8_ignore(Tail(Tail(b)))
    ELSE decode_utf8_ignore(Tail(b))

\* payload normalisation at the head of telegram(): None and the empty
\* payload both become the empty bytearray
NormPayload(payload) ==
    IF payload = None \/ Len(payload) = 0 THEN <<>> ELSE payload

\* the frame telegram() builds: length, command characters, payload
Encode(command, payload) ==
    pack_L(Len(NormPayload(payload))) \o command \o NormPayload(payload)

\* the size check of telegram(): raise OverflowError
TooLarge_gt(telegram, size) == Len(telegram) > size
TooLarge(telegram, size) == Len(telegram) >= size

\* the value set_buffer_size stores for an argument
StoredSize_keep(old, buffer_size) ==
    IF buffer_size < 8 THEN old ELSE buffer_size
StoredSize(old, buffer_size) ==
    IF buffer_size < 8 THEN DEFAULT_BUFFER_SIZE ELSE buffer_size

\* classification at the end of telegram(): the new last_error
Classify_always(rsp, content) == from_ba(content)
Classify(rsp, content) ==
    IF rsp = RSP_T_ER THEN from_ba(content) ELSE EmptyError

\* ------------------------------------------------------------------------
\* What the environment hands to the program
\* ------------------------------------------------------------------------

\* the content the peer sends after a header is the byte string 1, 2, 3, ...:
\* the k bytes of it that follow the first n
Stream(n, k) == [i \in 1..k |-> n + i]

\* payload arguments of telegram(): None, empty, and payloads <<1>>, <<1, 2>>, ...
Payloads == {None} \cup {[i \in 1..k |-> i] : k \in 0..MaxPayload}

\* arguments of set_buffer_size(): below the floor, the floor, and the sizes
\* of the frames the payloads give
SizeArgs == {-1, 7} \cup (8 .. (8 + MaxPayload))

\* the four code bytes a response header can carry: codes of the catalog,
\* text that is no code of the catalog, and bytes that are not UTF-8
HeaderCodes == {RSP_T_OK, RSP_T_ER, <<88, 88, 88, 88>>, <<84, 95, 255, 75>>}

\* a complete header followed by the first content bytes
HeaderReads ==
    {pack_L(l) \o c \o d : l \in 0..MaxLen, c \in HeaderCodes, d \in {Stream(0, k) : k \in 0..MaxInit}}

\* an incomplete header: 1 to 7 bytes
ShortReads == {SubSeq(pack_L(1) \o RSP_T_OK, 1, n) : n \in 1..7}

\* the socket call raised
SockError == <<-2>>

\* what the initial recv(size) of telegram() can give: an error, nothing, an
\* incomplete header, or a header and the first content bytes
InitialReads(size) ==
    {SockError, <<>>} \cup {d \in ShortReads \cup HeaderReads : Len(d) <= size}

\* what a recv(n) inside the reassembly loop can give after the socket has
\* delivered got content bytes: an error, or 0 to n bytes
LoopReads(got, n) == {SockError} \cup {Stream(got, k) : k \in 0..n}

\* RSP(text): the member of the response enumeration with that value;
\* <<>> stands for the ValueError of a text that is no member
RSP_of(text) == IF text \in RSP THEN text ELSE <<>>

\* the response type read from the header: RSP(data[4:8].decode("utf-8", "ignore"))
HeaderCode(data) == RSP_of(decode_utf8_ignore(Slice(data, 4, 8)))

\* the response length read from the header
HeaderLength(data) == unpack_L(Slice(data, 0, 4))

\* the size every recv of the reassembly loop asks for
RecvSize(length, data) == length - Len(Slice(data, 8, Len(data)))

\* the value of last_response when the size check of telegram() is reached
ResetResponse_keep(old) == old
ResetResponse(old) == RSP_NONE

\* whether telegram() reads from the socket after the send
ReadsResponse_always(wait_for_response) == TRUE
ReadsResponse(wait_for_response) == wait_for_response

\* whether the initial read of telegram() holds a response
GotData_always(data) == TRUE
GotData(data) == Len(data) > 0

\* the condition of the reassembly loop of telegram()
LoopContinues_le(content, length) == Len(content) <= length
LoopContinues(content, length) == Len(content) < length

\* ------------------------------------------------------------------------
\* State
\* ------------------------------------------------------------------------

VARIABLES
    is_connected,       \* self._is_connected
    buffer_size,        \* self._buffer_size
    last_response,      \* self._last_lsv2_response
    last_error,         \* self._last_error
    pc,                 \* "idle" between public calls; inside telegram(): "recv"
                        \* before the initial recv, "loop" before a recv of the loop
    data_recived,       \* local of telegram(): the initial read
    response_length,    \* local of telegram(): the declared length
    response_content,   \* local of telegram(): the accumulated content
    call,               \* the current (or latest) public call: its arguments, and
                        \* last_response and buffer size as they were when it began
    result,             \* how the latest public call ended
    sock,               \* the socket calls the current (or latest) public call made
    rx_stream,          \* the bytes the socket delivered after the 8 byte header in this call
    fresh               \* history: a connect() succeeded and disconnect() was not called since

vars == << is_connected, buffer_size, last_response, last_error, pc, data_recived,
           response_length, response_content, call, result, sock, rx_stream, fresh >>

\* the reads counted per call saturate here
RecvCap == MaxLen + 2

\* no socket call yet in this public call; recv counts the recv calls, tick is
\* the parity of their true number, req the size the latest one asked for
NoSock ==
    [connect |-> 0, close |-> 0, send |-> 0, recv |-> 0, tick |-> 0, sent |-> <<>>, req |-> 0]

NoCall ==
    [op |-> "init", command |-> <<>>, payload |-> <<>>, wait |-> FALSE, size |-> 0,
     pre |-> RSP_NONE, pre_size |-> 0]

\* a public call begins
Call(op) == [NoCall EXCEPT !.op = op, !.pre = last_response, !.pre_size = buffer_size]

Outcome(o, v, f) == [outcome |-> o, value |-> v, flag |-> f]

\* one more recv call asking for n bytes
Recv(s, n) ==
    [s EXCEPT !.recv = IF s.recv < RecvCap THEN s.recv + 1 ELSE RecvCap,
              !.tick = 1 - s.tick, !.req = n]

\* one send call with the frame
Send_retry(s, frame) == [s EXCEPT !.send = s.send + 2, !.sent = frame]
Send(s, frame) == [s EXCEPT !.send = s.send + 1, !.sent = frame]

\* the locals of telegram()
Locals(data, length, content) ==
    /\ data_recived' = data
    /\ response_length' = length
    /\ response_content' = content

\* the call ends with an exception
Raise(o) ==
    /\ pc' = "idle"
    /\ result' = Outcome(o, <<>>, FALSE)

\* the call ends with a return value
Return(v) ==
    /\ pc' = "idle"
    /\ result' = Outcome("return", v, FALSE)

\* __init__: buffer size -1, then set_buffer_size(DEFAULT_BUFFER_SIZE)
Init ==
    /\ is_connected = FALSE
    /\ buffer_size = StoredSize(-1, DEFAULT_BUFFER_SIZE)
    /\ last_response = RSP_NONE
    /\ last_error = EmptyError
    /\ pc = "idle"
    /\ data_recived = <<>>
    /\ response_length = 0
    /\ response_content = <<>>
    /\ call = NoCall
    /\ result = Outcome("return", <<>>, FALSE)
    /\ sock = NoSock
    /\ rx_stream = <<>>
    /\ fresh = FALSE

\* ------------------------------------------------------------------------
\* Operations
\* ------------------------------------------------------------------------

\* connect(): ok says whether the socket's connect returned or timed out
connect_flag(ok) ==
    /\ pc = "idle"
    /\ call' = Call("connect")
    /\ sock' = [NoSock EXCEPT !.connect = 1]
    /\ Locals(<<>>, 0, <<>>)
    /\ rx_stream' = <<>>
    /\ is_connected' = TRUE
    /\ IF ok
       THEN /\ last_response' = RSP_NONE
            /\ last_error' = EmptyError
            /\ fresh' = TRUE
            /\ Return(<<>>)
       ELSE /\ UNCHANGED << last_response, last_error, fresh >>
            /\ Raise("ConnectTimeout")
    /\ UNCHANGED buffer_size
connect(ok) ==
    /\ pc = "idle"
    /\ call' = Call("connect")
    /\ sock' = [NoSock EXCEPT !.connect = 1]
    /\ Locals(<<>>, 0, <<>>)
    /\ rx_stream' = <<>>
    /\ IF ok
       THEN /\ is_connected' = TRUE
            /\ last_response' = RSP_NONE
            /\ last_error' = EmptyError
            /\ fresh' = TRUE
            /\ Return(<<>>)
       ELSE /\ UNCHANGED << is_connected, last_response, last_error, fresh >>
            /\ Raise("ConnectTimeout")
    /\ UNCHANGED buffer_size

\* disconnect(): ok says whether the socket's close returned or timed out
disconnect(ok) ==
    /\ pc = "idle"
    /\ call' = Call("disconnect")
    /\ sock' = [NoSock EXCEPT !.close = 1]
    /\ Locals(<<>>, 0, <<>>)
    /\ rx_stream' = <<>>
    /\ fresh' = FALSE
    /\ IF ok
       THEN /\ is_connected' = FALSE
            /\ last_response' = RSP_NONE
            /\ last_error' = EmptyError
            /\ Return(<<>>)
       ELSE /\ UNCHANGED << is_connected, last_response, last_error >>
            /\ Raise("DisconnectTimeout")
    /\ UNCHANGED buffer_size

\* set_buffer_size(size)
set_buffer_size(size) ==
    /\ pc = "idle"
    /\ call' = [Call("set_buffer_size") EXCEPT !.size = size]
    /\ sock' = NoSock
    /\ Locals(<<>>, 0, <<>>)
    /\ rx_stream' = <<>>
    /\ buffer_size' = StoredSize(buffer_size, size)
    /\ pc' = "idle"
    /\ result' = Outcome("return", <<>>, ~(size < 8))
    /\ UNCHANGED << is_connected, last_response, last_error, fresh >>

\* telegram(), from "if response_length > 0" up to the first recv of the
\* loop, or to the return when the loop is not entered
Reassemble(rsp, length, data) ==
    LET content == IF length > 0 THEN Slice(data, 8, Len(data)) ELSE <<>>
    IN  /\ last_response' = rsp
        /\ Locals(data, length, content)
        /\ IF length > 0 /\ LoopContinues(content, length)
           THEN /\ pc' = "loop"
                /\ result' = Outcome("running", <<>>, FALSE)
                /\ UNCHANGED last_error
           ELSE /\ last_error' = Classify(rsp, content)
                /\ Return(content)

\* telegram(command, payload, wait_for_response) up to the initial recv;
\* send_ok says whether the socket's send returned or raised
telegram(command, payload, wait_for_response, send_ok) ==
    /\ pc = "idle"
    /\ call' = [Call("telegram") EXCEPT !.command = command, !.payload = payload,
                                        !.wait = wait_for_response]
    /\ rx_stream' = <<>>
    /\ UNCHANGED << is_connected, buffer_size, fresh >>
    /\ IF is_connected = FALSE
       THEN /\ Raise("NotConnected")
            /\ sock' = NoSock
            /\ Locals(<<>>, 0, <<>>)
            /\ UNCHANGED << last_response, last_error >>
       ELSE LET tg == Encode(command, payload)
            IN  IF TooLarge(tg, buffer_size)
                THEN /\ Raise("TelegramTooLarge")
                     /\ last_response' = ResetResponse(last_response)
                     /\ sock' = NoSock
                     /\ Locals(<<>>, 0, <<>>)
                     /\ UNCHANGED last_error
                ELSE IF ~send_ok
                THEN /\ Raise("TransmissionFailure")
                     /\ last_response' = ResetResponse(last_response)
                     /\ sock' = Send(NoSock, tg)
                     /\ Locals(<<>>, 0, <<>>)
                     /\ UNCHANGED last_error
                ELSE IF ReadsResponse(wait_for_response)
                THEN /\ pc' = "recv"
                     /\ result' = Outcome("running", <<>>, FALSE)
                     /\ last_response' = ResetResponse(last_response)
                     /\ sock' = Send(NoSock, tg)
                     /\ Locals(<<>>, 0, <<>>)
                     /\ UNCHANGED last_error
                ELSE /\ sock' = Send(NoSock, tg)
                     /\ Reassemble(RSP_NONE, 0, <<>>)

\* telegram() from the initial recv up to the first recv of the reassembly
\* loop; rcv is what the initial recv gives
telegram_recv(rcv) ==
    /\ pc = "recv"
    /\ sock' = Recv(sock, buffer_size)
    /\ UNCHANGED << is_connected, buffer_size, call, fresh >>
    /\ IF rcv = SockError
       THEN /\ Raise("TransmissionFailure")
            /\ UNCHANGED << last_response, last_error, rx_stream,
                            data_recived, response_length, response_content >>
       ELSE /\ rx_stream' = Slice(rcv, 8, Len(rcv))
            /\ IF GotData(rcv)
               THEN IF Len(rcv) >= 8
                    THEN IF HeaderCode(rcv) = <<>>
                         THEN /\ Raise("ValueError")
                              /\ Locals(rcv, HeaderLength(rcv), <<>>)
                              /\ UNCHANGED << last_response, last_error >>
                         ELSE Reassemble(HeaderCode(rcv), HeaderLength(rcv), rcv)
                    ELSE /\ Raise("MalformedResponse")
                         /\ Locals(rcv, 0, <<>>)
                         /\ UNCHANGED << last_response, last_error >>
               ELSE Reassemble(RSP_NONE, 0, rcv)

\* one pass of the reassembly loop of telegram(), and the rest of the call
\* when the loop ends; rcv is what the recv gives
recv_more_reset(rcv) ==
    /\ pc = "loop"
    /\ sock' = Recv(sock, RecvSize(response_length, data_recived))
    /\ UNCHANGED << is_connected, buffer_size, call, fresh, data_recived, response_length >>
    /\ IF rcv = SockError
       THEN /\ Raise("TransmissionFailure")
            /\ last_response' = RSP_NONE
            /\ UNCHANGED << last_error, rx_stream, response_content >>
       ELSE LET content == response_content \o rcv
            IN  /\ rx_stream' = rx_stream \o rcv
                /\ response_content' = content
                /\ UNCHANGED last_response
                /\ IF LoopContinues(content, response_length)
                   THEN UNCHANGED << pc, result, last_error >>
                   ELSE /\ last_error' = Classify(last_response, content)
                        /\ Return(content)
recv_more(rcv) ==
    /\ pc = "loop"
    /\ sock' = Recv(sock, RecvSize(response_length, data_recived))
    /\ UNCHANGED << is_connected, buffer_size, last_response, call, fresh,
                    data_recived, response_length >>
    /\ IF rcv = SockError
       THEN /\ Raise("TransmissionFailure")
            /\ UNCHANGED << last_error, rx_stream, response_content >>
       ELSE LET content == response_content \o rcv
            IN  /\ rx_stream' = rx_stream \o rcv
                /\ response_content' = content
                /\ IF LoopContinues(content, response_length)
                   THEN UNCHANGED << pc, result, last_error >>
                   ELSE /\ last_error' = Classify(last_response, content)
                        /\ Return(content)

\* ------------------------------------------------------------------------
\* Specification
\* ------------------------------------------------------------------------

Connect == \E ok \in BOOLEAN : connect(ok)

Disconnect == \E ok \in BOOLEAN : disconnect(ok)

SetBufferSize == \E size \in SizeArgs : set_buffer_size(size)

Telegram ==
    /\ pc = "idle"
    /\ \E command \in CMD, payload \in Payloads, wait_for_response \in BOOLEAN,
          send_ok \in BOOLEAN :
          telegram(command, payload, wait_for_response, send_ok)

TelegramRecv ==
    /\ pc = "recv"
    /\ \E rcv \in InitialReads(buffer_size) : telegram_recv(rcv)

RecvMore ==
    /\ pc = "loop"
    /\ \E rcv \in LoopReads(Len(rx_stream), RecvSize(response_length, data_recived)) :
          recv_more(rcv)

Next == Connect \/ Disconnect \/ SetBufferSize \/ Telegram \/ TelegramRecv \/ RecvMore

Spec == Init /\ [][Next]_vars

\* every blocking socket call of a telegram() in progress returns or raises
SpecFair == Init /\ [][Next]_vars /\ WF_vars(TelegramRecv) /\ WF_vars(RecvMore)

\* a recv(n) inside the reassembly loop that raises or delivers at least one
\* byte
LoopReadsProgress(got, n) == {SockError} \cup {Stream(got, k) : k \in 1..n}

RecvMoreProgress ==
    /\ pc = "loop"
    /\ \E rcv \in LoopReadsProgress(Len(rx_stream), RecvSize(response_length, data_recived)) :
          recv_more(rcv)

NextProgress ==
    Connect \/ Disconnect \/ SetBufferSize \/ Telegram \/ TelegramRecv \/ RecvMoreProgress

\* every socket call returns or raises, and every recv of the reassembly loop
\* raises or delivers at least one byte
SpecProgress ==
    Init /\ [][NextProgress]_vars /\ WF_vars(TelegramRecv) /\ WF_vars(RecvMoreProgress)

TypeOK ==
    /\ is_connected \in BOOLEAN
    /\ buffer_size \in Int
    /\ last_response \in RSP
    /\ pc \in {"idle", "recv", "loop"}

\* ------------------------------------------------------------------------
\* Properties
\* ------------------------------------------------------------------------

\* the latest public call was op and has ended
Ended(op) == pc = "idle" /\ call.op = op

\* len(payload) of a payload argument, 0 for None
PayloadLength(payload) == IF payload = None THEN 0 ELSE Len(payload)

\* the latest call is a telegram() whose initial read held a whole header
HeaderRead == call.op = "telegram" /\ Len(data_recived) >= 8

\* C1: a telegram() that waits for the response, reads a header declaring
\* length L and returns, returns exactly L bytes, the first L bytes the socket
\* delivered after the header, and last_response is the code of the header.
C1_FragmentedReassembly ==
    (Ended("telegram") /\ call.wait /\ HeaderRead /\ result.outcome = "return") =>
        /\ Len(result.value) = HeaderLength(data_recived)
        /\ result.value = SubSeq(rx_stream, 1, HeaderLength(data_recived))
        /\ last_response = Slice(data_recived, 4, 8)

C3_NotConnected ==
    [][ (pc = "idle" /\ call'.op = "telegram") =>
           /\ (~is_connected =>
                  /\ result'.outcome = "NotConnected"
                  /\ sock' = NoSock
                  /\ UNCHANGED << last_response, last_error, buffer_size, is_connected >>)
           /\ (sock'.send > 0 => fresh) ]_vars

\* C4: after a telegram() that returns, last_error is the decoder's record of
\* the returned content if the header's code is T_ER, and the empty record
\* otherwise; in the error case the returned payload is the content read.
C4_ErrorClassification ==
    (Ended("telegram") /\ result.outcome = "return") =>
        IF HeaderRead /\ Slice(data_recived, 4, 8) = RSP_T_ER
        THEN /\ last_error = from_ba(result.value)
             /\ result.value = IF HeaderLength(data_recived) > 0 THEN rx_stream ELSE <<>>
        ELSE last_error = EmptyError

\* an error response of two content bytes, reassembled, is in last_error
C4_Witness ==
    /\ Ended("telegram")
    /\ result.outcome = "return"
    /\ HeaderRead
    /\ Slice(data_recived, 4, 8) = RSP_T_ER
    /\ sock.recv > 1
    /\ result.value = <<1, 2>>
    /\ last_error = from_ba(<<1, 2>>)

\* C5: between public calls, a non-empty last_error implies that
\* last_response is the error response code.
C5_ErrorOnlyWithErrorResponse ==
    pc = "idle" => (~last_error.empty => last_response = RSP_T_ER)

\* C6 as claimed: an initial read of 1 to 7 bytes makes telegram() fail with
\* MalformedResponse and leaves last_response at its value before the call.
C6_ShortHeaderKeepsResponse ==
    (Ended("telegram") /\ Len(data_recived) \in 1..7) =>
        /\ result.outcome = "MalformedResponse"
        /\ last_response = call.pre

\* C6 as amended: an initial read of 1 to 7 bytes makes telegram() fail with
\* MalformedResponse and leaves last_response at "none", whatever it was
\* before the call.
C6_ShortHeaderResetsResponse ==
    (Ended("telegram") /\ Len(data_recived) \in 1..7) =>
        /\ result.outcome = "MalformedResponse"
        /\ last_response = RSP_NONE

\* a five byte initial read in a call that began with last_response T_ER
C6_Witness ==
    /\ Ended("telegram")
    /\ Len(data_recived) = 5
    /\ result.outcome = "MalformedResponse"
    /\ call.pre = RSP_T_ER
    /\ last_response = RSP_NONE

\* C7: a telegram() with wait_for_response false that passes the size check
\* and whose send succeeds makes one send and no recv, returns the empty
\* payload and leaves last_response at "none".
C7_NoReplyCommand ==
    (/\ call.op = "telegram"
     /\ ~call.wait
     /\ result.outcome \notin {"NotConnected", "TelegramTooLarge", "TransmissionFailure"}) =>
        /\ pc = "idle"
        /\ result.outcome = "return"
        /\ sock.send = 1
        /\ sock.recv = 0
        /\ result.value = <<>>
        /\ last_response = RSP_NONE

\* a no-reply command returned in a call that began with last_response T_OK
C7_Witness ==
    /\ Ended("telegram")
    /\ ~call.wait
    /\ result.outcome = "return"
    /\ sock.send = 1
    /\ call.pre = RSP_T_OK
    /\ last_response = RSP_NONE

\* what C8 says of the state
C8_State ==
    /\ buffer_size >= 8
    /\ Ended("set_buffer_size") =>
          IF call.size >= 8
          THEN buffer_size = call.size /\ result.flag
          ELSE buffer_size = DEFAULT_BUFFER_SIZE /\ ~result.flag

\* C8: the buffer size is always at least 8; set_buffer_size(x) stores x and
\* returns True for x >= 8, stores 256 and returns False for x < 8; connect,
\* disconnect and telegram never change the buffer size.
C8_BufferFloor ==
    /\ []C8_State
    /\ [][ call'.op \in {"connect", "disconnect", "telegram"} =>
              buffer_size' = buffer_size ]_vars

\* a size below 8 was rejected while another size than the default was stored
C8_Witness ==
    /\ Ended("set_buffer_size")
    /\ call.size < 8
    /\ call.pre_size # DEFAULT_BUFFER_SIZE
    /\ buffer_size = DEFAULT_BUFFER_SIZE
    /\ ~result.flag

\* C9: a disconnect() whose close times out surfaces the timeout and still
\* leaves the instance disconnected, last_response "none" and last_error
\* empty.
C9_DisconnectTimeout ==
    (Ended("disconnect") /\ result.outcome = "DisconnectTimeout") =>
        /\ ~is_connected
        /\ last_response = RSP_NONE
        /\ last_error = EmptyError

\* C10: a connect() on a disconnected instance that times out leaves the flag
\* false and last_response and last_error as they were; one that succeeds sets
\* the flag, last_response "none" and last_error empty; the flag becomes true
\* only by a successful connect() and is false after a successful disconnect().
C10_Connect ==
    [][ /\ (pc = "idle" /\ ~is_connected /\ call'.op = "connect") =>
              IF result'.outcome = "ConnectTimeout"
              THEN ~is_connected' /\ UNCHANGED << last_response, last_error >>
              ELSE /\ result'.outcome = "return"
                   /\ is_connected'
                   /\ last_response' = RSP_NONE
                   /\ last_error' = EmptyError
        /\ (is_connected' /\ ~is_connected) =>
              (call'.op = "connect" /\ result'.outcome = "return")
        /\ (pc = "idle" /\ call'.op = "disconnect" /\ result'.outcome = "return") =>
              ~is_connected' ]_vars

\* a connect() timed out and the instance is still disconnected
C10_Witness ==
    /\ Ended("connect")
    /\ result.outcome = "ConnectTimeout"
    /\ sock.connect = 1
    /\ ~is_connected

\* C11: the frame telegram() sends is the big endian length of the payload,
\* the 4 code bytes and the payload; the response header decoding of
\* telegram() applied to its first 8 bytes gives the payload length and the
\* code, the bytes after them are the payload; None and the empty payload
\* give the same 8 byte frame.
C11_RoundTripFraming ==
    (call.op = "telegram" /\ sock.send = 1) =>
        LET p == IF call.payload = None THEN <<>> ELSE call.payload
        IN  /\ sock.sent = pack_L(Len(p)) \o call.command \o p
            /\ HeaderLength(sock.sent) = Len(p)
            /\ HeaderCode(sock.sent) = call.command
            /\ Slice(sock.sent, 8, Len(sock.sent)) = p
            /\ (call.payload \in {None, <<>>}) => (Len(sock.sent) = 8)

\* C12: once the initial read holds 8 bytes or more, telegram() does not raise
\* while it decodes the header, whatever bytes 4..7 are, and last_response is
\* the decoded code.
C12_HeaderDecodingNeverFails ==
    HeaderRead =>
        /\ result.outcome # "ValueError"
        /\ last_response = decode_utf8_ignore(Slice(data_recived, 4, 8))

\* C13: every recv of the reassembly loop asks for the bytes still missing,
\* the declared length minus the content accumulated when it is issued, and the
\* content never grows beyond the declared length.
C13_ReadsAskForDeficit ==
    [][ pc = "loop" =>
           /\ sock'.req = response_length - Len(response_content)
           /\ Len(response_content') <= response_length ]_vars

\* C14: a telegram() whose initial read gives zero bytes does not fail, reads
\* no more, returns the empty payload and leaves last_response "none" and
\* last_error empty.
C14_ZeroByteRead ==
    (/\ call.op = "telegram"
     /\ sock.recv >= 1
     /\ data_recived = <<>>
     /\ result.outcome # "TransmissionFailure") =>
        /\ pc = "idle"
        /\ result.outcome = "return"
        /\ result.value = <<>>
        /\ sock.recv = 1
        /\ last_response = RSP_NONE
        /\ last_error = EmptyError

\* a zero byte initial read in a call that began with last_response T_ER
C14_Witness ==
    /\ Ended("telegram")
    /\ call.wait
    /\ sock.recv = 1
    /\ data_recived = <<>>
    /\ result.outcome = "return"
    /\ call.pre = RSP_T_ER
    /\ last_error = EmptyError

\* C15: when a recv of the reassembly loop raises, telegram() raises, returns
\* no content, reads no more, and last_response is the code of the header read
\* in this call.
C15_LoopFailure ==
    (call.op = "telegram" /\ result.outcome = "TransmissionFailure" /\ sock.recv >= 2) =>
        /\ pc = "idle"
        /\ result.value = <<>>
        /\ HeaderRead
        /\ last_response = Slice(data_recived, 4, 8)

\* a loop recv raised after part of the content had arrived, in a call that
\* began with last_response T_ER and read the header of a T_OK response
C15_Witness ==
    /\ Ended("telegram")
    /\ result.outcome = "TransmissionFailure"
    /\ sock.recv >= 2
    /\ response_content # <<>>
    /\ call.pre = RSP_T_ER
    /\ last_response = RSP_T_OK

\* C16: when the send of a telegram() raises, the call raises without any
\* recv and last_response is "none"; when the initial recv raises, the call
\* raises and last_response is "none" as well.
C16_SendFailure ==
    [][ /\ (pc = "idle" /\ call'.op = "telegram" /\ result'.outcome = "TransmissionFailure") =>
              (pc' = "idle" /\ sock'.send = 1 /\ sock'.recv = 0 /\ last_response' = RSP_NONE)
        /\ (pc = "recv" /\ result'.outcome = "TransmissionFailure") =>
              (pc' = "idle" /\ sock'.recv = 1 /\ last_response' = RSP_NONE) ]_vars

\* a send raised in a call that began with last_response T_OK
C16_Witness ==
    /\ Ended("telegram")
    /\ result.outcome = "TransmissionFailure"
    /\ sock.send = 1
    /\ sock.recv = 0
    /\ call.pre = RSP_T_OK
    /\ last_response = RSP_NONE

\* the recv calls of the reassembly loop in the current call
LoopReadCount == IF sock.recv >= 1 THEN sock.recv - 1 ELSE 0

\* the content bytes missing after the initial read
InitialDeficit ==
    IF RecvSize(response_length, data_recived) > 0
    THEN RecvSize(response_length, data_recived) ELSE 0

\* C17: when every socket call returns and every recv of the reassembly loop
\* raises or delivers at least one byte, every telegram() ends, and the loop
\* makes at most as many recv calls as content bytes were missing after the
\* initial read.
C17_Terminates ==
    /\ (pc # "idle") ~> (pc = "idle")
    /\ [](call.op = "telegram" => LoopReadCount <= InitialDeficit)

\* two content bytes arrived in two loop reads of one byte each
C17_Witness ==
    /\ Ended("telegram")
    /\ result.outcome = "return"
    /\ response_length = 2
    /\ Len(data_recived) = 8
    /\ sock.recv = 3
    /\ result.value = <<1, 2>>

\* C18: a telegram() whose loop reads keep returning zero bytes still ends.
C18_ZeroReadsTerminate == (pc = "loop") ~> (pc = "idle")

\* C19: with every buffer size set_buffer_size accepts, a telegram() with an
\* empty payload on a connected instance passes the size check and is sent.
C19_HeaderFitsAcceptedSize ==
    (/\ call.op = "telegram"
     /\ call.payload \in {None, <<>>}
     /\ result.outcome # "NotConnected") =>
        /\ result.outcome # "TelegramTooLarge"
        /\ sock.send = 1

\* C20: a telegram() makes at most one send, before any recv, makes no connect
\* and no close, and leaves the connected flag as it was.
C20_NoRetry ==
    [][ call'.op = "telegram" =>
           /\ sock'.send <= 1
           /\ sock'.connect = 0
           /\ sock'.close = 0
           /\ is_connected' = is_connected
           /\ (sock'.recv > 0) => (sock'.send = 1)
           /\ (pc # "idle") => (sock'.send = sock.send) ]_vars

\* an exchange failed inside the reassembly loop and the instance is connected
C20_Witness ==
    /\ Ended("telegram")
    /\ result.outcome = "TransmissionFailure"
    /\ sock.send = 1
    /\ sock.recv >= 2
    /\ is_connected

====
